---- MODULE Spec2Model ----
(***************************************************************************)
(* A model of litesimple.py, an ORM micro-library over sqlite3 (Python 2). *)
(*                                                                         *)
(* Python values are tagged records [k |-> kind, v |-> payload] so that    *)
(* None, integers, strings and datetimes can be compared with each other. *)
(* A raised exception is the value [k |-> "raise", v |-> <exception name>].*)
(*                                                                         *)
(* The database file is taken to exist already and to hold the table of    *)
(* the declared record type (SQLite.check_db only creates a table that is  *)
(* missing), with the storage type of every column as the field declares   *)
(* it and with an integer primary key that is the engine's row id.         *)
(***************************************************************************)
EXTENDS Integers, Sequences, FiniteSets, TLC

VARIABLES dct, cls, rows, inst, clock, last, connection

vars == <<dct, cls, rows, inst, clock, last, connection>>

(***************************************************************************)
(* Bounds of the model.                                                    *)
(***************************************************************************)
\* Largest row id the table hands out; an INSERT beyond it is not taken.
MaxRowId == 2
\* Latest reading of the clock (datetime.datetime.now()).
MaxClock == 3
\* Largest number of fields in a declaration drawn for the metaclass.
MaxFields == 3
\* Largest number of cursors left open; an operation that would leave one
\* more open is not taken.
MaxCursors == 1

(***************************************************************************)
(* Python values.                                                          *)
(***************************************************************************)
PyNone == [k |-> "none", v |-> 0]

PyInt(n) == [k |-> "int", v |-> n]

PyStr(s) == [k |-> "str", v |-> s]

\* A decimal.Decimal of integral value n.
PyDecimal(n) == [k |-> "decimal", v |-> n]

\* A datetime.datetime; 0 is datetime.datetime.min (year 1), t > 0 is a
\* moment of the running process, t microseconds after its epoch.
PyDateTime(t) == [k |-> "datetime", v |-> t]

Raise(e) == [k |-> "raise", v |-> e]

IsRaise(x) == x.k = "raise"

\* "%s" % value
PyFormat(value) ==
    CASE value.k = "none" -> "None"
      [] value.k = "int"  -> ToString(value.v)
      [] value.k = "str"  -> value.v
      [] value.k = "decimal" -> ToString(value.v)
      [] value.k = "datetime" ->
            IF value.v = 0 THEN "0001-01-01 00:00:00"
            ELSE "2012-01-01 00:00:00.00000" \o ToString(value.v)
      [] OTHER            -> "<" \o value.k \o ">"

\* kwargs.get(key, dflt) over the keyword arguments of a call
Kw(kwargs, key, dflt) == IF key \in DOMAIN kwargs THEN kwargs[key] ELSE dflt

\* The texts a program assigns to text fields.
Texts == {"hello", "world"}

(***************************************************************************)
(* Field and its kinds.                                                    *)
(***************************************************************************)
\* Field.__init__ ; auto_now and auto_now_add exist on FieldDateTime only
\* and are carried as FALSE by the other kinds.
Field(kind, column_type, kwargs) ==
    [k            |-> "field",
     kind         |-> kind,
     column_type  |-> column_type,
     column_name  |-> Kw(kwargs, "column_name", PyNone),
     is_key       |-> Kw(kwargs, "is_key", FALSE),
     is_unique    |-> Kw(kwargs, "is_unique", FALSE),
     allow_null   |-> Kw(kwargs, "allow_null", TRUE),
     check        |-> Kw(kwargs, "check", FALSE),
     default      |-> Kw(kwargs, "default", PyNone),
     attr         |-> PyNone,
     auto_now     |-> Kw(kwargs, "auto_now", FALSE),
     auto_now_add |-> Kw(kwargs, "auto_now_add", FALSE)]

FieldInteger(kwargs) ==
    Field("Integer", "INTEGER",
          IF "default" \notin DOMAIN kwargs
          THEN kwargs @@ [default |-> PyInt(0)] ELSE kwargs)

FieldDecimal(kwargs) ==
    Field("Decimal", "NUMERIC",
          IF "default" \notin DOMAIN kwargs
          THEN kwargs @@ [default |-> PyDecimal(0)] ELSE kwargs)

FieldText(kwargs) ==
    Field("Text", "TEXT",
          IF "default" \notin DOMAIN kwargs /\ "allow_null" \in DOMAIN kwargs
             /\ ~kwargs["allow_null"]
          THEN kwargs @@ [default |-> PyStr("")] ELSE kwargs)

FieldDateTime(kwargs) ==
    LET kw1 == [allow_null |-> FALSE] @@ kwargs
    IN  Field("DateTime", "TEXT",
              IF "default" \notin DOMAIN kw1
              THEN kw1 @@ [default |-> PyDateTime(0)] ELSE kw1)

\* Field.validate and its overrides
validate(field, value) ==
    CASE field.kind = "Integer" ->
            \* int(value)
            IF value.k = "int" THEN value
            ELSE IF value.k = "str"
                 THEN IF \E n \in 0..(MaxRowId + 1) : ToString(n) = value.v
                      THEN PyInt(CHOOSE n \in 0..(MaxRowId + 1) :
                                     ToString(n) = value.v)
                      ELSE Raise("ValueError")
                 ELSE Raise("TypeError")
      [] field.kind = "Decimal" ->
            \* D(value)
            IF value.k = "decimal" THEN value
            ELSE IF value.k = "int" THEN PyDecimal(value.v)
            ELSE IF value.k = "str"
                 THEN IF \E n \in 0..(MaxRowId + 1) : ToString(n) = value.v
                      THEN PyDecimal(CHOOSE n \in 0..(MaxRowId + 1) :
                                         ToString(n) = value.v)
                      ELSE Raise("InvalidOperation")
                 ELSE Raise("TypeError")
      [] field.kind = "Text" -> PyStr(PyFormat(value))
      [] field.kind = "DateTime" ->
            IF value.k = "datetime" THEN value ELSE Raise("TypeError")
      [] OTHER -> value

\* datetime.datetime.strftime(value, "%Y-%m-%d %H:%M:%S.%f"): the fixed
\* width text of a moment.  Python 2 refuses years before 1900, so the
\* minimum timestamp cannot be formatted.
strftime(value) ==
    IF value.k # "datetime" THEN Raise("TypeError")
    ELSE IF value.v = 0 THEN Raise("ValueError")
    ELSE PyStr("2012-01-01 00:00:00.00000" \o ToString(value.v))

\* datetime.datetime.strptime(value, "%Y-%m-%d %H:%M:%S.%f")
strptime(value) ==
    IF value.k # "str" THEN Raise("TypeError")
    ELSE IF \E t \in 1..(MaxClock + 1) : strftime(PyDateTime(t)) = value
         THEN PyDateTime(CHOOSE t \in 1..(MaxClock + 1) :
                             strftime(PyDateTime(t)) = value)
         ELSE Raise("ValueError")

\* Field.to_db_format and FieldDateTime.to_db_format; now is the reading of
\* datetime.datetime.now() the call would take.
to_db_format(field, value, first_time, is_query, now) ==
    IF field.kind = "DateTime"
    THEN IF is_query /\ (field.auto_now \/ (first_time /\ field.auto_now_add))
         THEN strftime(PyDateTime(now))
         ELSE strftime(value)
    ELSE value

\* Field.from_db_format and FieldDateTime.from_db_format
from_db_format(field, value) ==
    IF field.kind = "DateTime" THEN strptime(value) ELSE value

\* Field._get_column_statement
get_column_statement(field) ==
    LET statement == PyFormat(field.column_name) \o " " \o field.column_type
    IN  IF field.is_key THEN PyStr(statement \o " PRIMARY KEY")
        ELSE IF ~field.allow_null THEN PyStr(statement \o " NOT NULL")
        ELSE IF field.is_unique THEN PyStr(statement \o " UNIQUE")
        ELSE IF field.check THEN PyStr(statement \o " CHECK")
        ELSE LET default == to_db_format(field, field.default, FALSE, FALSE, 0)
             IN  IF IsRaise(default) THEN default
                 \* statement += default: str + number is a TypeError
                 ELSE IF default.k \in {"int", "decimal"} THEN Raise("TypeError")
                 ELSE IF default = PyNone
                      THEN PyStr(statement \o " DEFAULT " \o PyFormat(default))
                      ELSE PyStr(statement \o " DEFAULT \"" \o PyFormat(default)
                                 \o "\"")

(***************************************************************************)
(* ModelMeta: the schema of a record type.                                 *)
(*                                                                         *)
(* A declaration is the class body as the metaclass sees it: the sequence  *)
(* dct.items() of [attr, value] pairs, in the order the dictionary yields  *)
(* them (any order).  Only the Field-valued attributes are kept.           *)
(***************************************************************************)
Item(attr, value) == [attr |-> attr, value |-> value]

\* the for loop of ModelMeta.__new__ ; st carries dct["_columns"],
\* dct["_primary_key"], found_primary, the fields bound so far and the
\* exception raised, if any
RECURSIVE MetaLoop(_, _)
MetaLoop(items, st) ==
    IF items = <<>> \/ st.raised # "" THEN st
    ELSE LET attr   == Head(items).attr
             value0 == [Head(items).value EXCEPT !.attr = PyStr(attr)]
             value  == IF value0.column_name = PyNone
                       THEN [value0 EXCEPT !.column_name = PyStr(attr)]
                       ELSE value0
         IN  IF value.is_key /\ st.found_primary
             THEN [st EXCEPT !.raised = "TypeError"]
             ELSE MetaLoop(Tail(items),
                    [st EXCEPT
                       !.found_primary = @ \/ value.is_key,
                       !.primary_key = IF value.is_key
                                       THEN value.column_name ELSE @,
                       !.columns = Append(@, value.column_name.v),
                       !.dict = Append(@, Item(attr, value))])

\* dct["_rowid_"] = FieldInteger(is_key=True): replaces the entry of that
\* name in the class dictionary, or adds one
SetRowidEntry(dict) ==
    LET entry == Item("_rowid_", FieldInteger([is_key |-> TRUE]))
    IN  IF \E i \in 1..Len(dict) : dict[i].attr = "_rowid_"
        THEN [i \in 1..Len(dict) |->
                 IF dict[i].attr = "_rowid_" THEN entry ELSE dict[i]]
        ELSE Append(dict, entry)

\* ModelMeta.__new__ with the synthesized key placed by a plain append
ModelMetaNew_KeyAppended(name, items) ==
    LET st == MetaLoop(items, [found_primary |-> FALSE, primary_key |-> PyNone,
                               columns |-> <<>>, dict |-> <<>>, raised |-> ""])
    IN  IF st.raised # "" THEN Raise(st.raised)
        ELSE IF st.primary_key = PyNone
        THEN [k |-> "class", tablename |-> name,
              columns |-> Append(st.columns, "_rowid_"),
              primary_key |-> "_rowid_",
              dict |-> SetRowidEntry(st.dict)]
        ELSE [k |-> "class", tablename |-> name,
              columns |-> st.columns,
              primary_key |-> st.primary_key.v,
              dict |-> st.dict]

\* ModelMeta.__new__ : the class, or the exception it raises.  dict is the
\* class dictionary restricted to its fields, in iteration order.
ModelMetaNew(name, items) ==
    LET st == MetaLoop(items, [found_primary |-> FALSE, primary_key |-> PyNone,
                               columns |-> <<>>, dict |-> <<>>, raised |-> ""])
    IN  IF st.raised # "" THEN Raise(st.raised)
        ELSE IF st.primary_key = PyNone
        THEN [k |-> "class", tablename |-> name,
              columns |-> <<"_rowid_">> \o st.columns,
              primary_key |-> "_rowid_",
              dict |-> SetRowidEntry(st.dict)]
        ELSE [k |-> "class", tablename |-> name,
              columns |-> st.columns,
              primary_key |-> st.primary_key.v,
              dict |-> st.dict]

\* the class before its class statement has run
Undeclared == [k |-> "undeclared"]

\* cls.__dict__[attr] for a field, or KeyError
ClassDictGet(c, attr) ==
    IF \E i \in 1..Len(c.dict) : c.dict[i].attr = attr
    THEN (CHOOSE e \in {c.dict[i] : i \in 1..Len(c.dict)} : e.attr = attr).value
    ELSE Raise("KeyError")

\* the fields of the class, as [attr, value] pairs
Fields(c) == {c.dict[i] : i \in 1..Len(c.dict)}

RECURSIVE Join(_, _)
\* sep.join(strs)
Join(sep, strs) ==
    IF strs = <<>> THEN ""
    ELSE IF Len(strs) = 1 THEN strs[1]
    ELSE strs[1] \o sep \o Join(sep, Tail(strs))

RECURSIVE RestStatements(_, _, _)
\* the second loop of Model.get_create_statement
RestStatements(c, entries, col_statements) ==
    IF entries = <<>> THEN [k |-> "list", v |-> col_statements]
    ELSE LET e == Head(entries)
             s == get_column_statement(e.value)
         IN  IF e.attr # c.primary_key
             THEN IF IsRaise(s) THEN s
                  ELSE RestStatements(c, Tail(entries),
                                      Append(col_statements, s.v))
             ELSE RestStatements(c, Tail(entries), col_statements)

\* the list col_statements that Model.get_create_statement joins (tagged
\* "list"), or the exception raised while it is built
ColStatements(c) ==
    IF c.primary_key # "_rowid_"
    THEN LET key == ClassDictGet(c, c.primary_key)
         IN  IF IsRaise(key) THEN key
             ELSE LET s == get_column_statement(key)
                  IN  IF IsRaise(s) THEN s
                      ELSE RestStatements(c, c.dict, <<s.v>>)
    ELSE RestStatements(c, c.dict, <<>>)

\* Model.get_create_statement
get_create_statement(c) ==
    LET col_statements == ColStatements(c)
    IN  IF IsRaise(col_statements) THEN col_statements
        ELSE PyStr("CREATE TABLE " \o c.tablename \o " ("
                   \o Join(", ", col_statements.v) \o ")")

(***************************************************************************)
(* Declarations.                                                           *)
(***************************************************************************)
NoKw == <<>>

\* the field declarations the metaclass is tried on
FieldPool ==
    { Item("id",      FieldInteger([is_key |-> TRUE])),
      Item("id",      FieldInteger([is_key |-> TRUE,
                                    column_name |-> PyStr("note_id")])),
      Item("uid",     FieldInteger([is_key |-> TRUE])),
      Item("text",    FieldText(NoKw)),
      Item("title",   FieldText([column_name |-> PyStr("text")])),
      Item("count",   FieldInteger(NoKw)),
      Item("row",     FieldInteger([column_name |-> PyStr("_rowid_")])),
      Item("created", FieldDateTime([auto_now_add |-> TRUE])) }

RECURSIVE ItemSeqs(_)
\* the sequences of at most n pool entries with distinct attribute names
ItemSeqs(n) ==
    IF n = 0 THEN {<<>>}
    ELSE LET S == ItemSeqs(n - 1)
         IN  S \cup UNION { { Append(s, f) :
                               f \in {g \in FieldPool :
                                        \A i \in 1..Len(s) : s[i].attr # g.attr} }
                            : s \in {x \in S : Len(x) = n - 1} }

Declarations == {[name |-> "Record", items |-> s] : s \in ItemSeqs(MaxFields)}

(***************************************************************************)
(* The storage engine behind SQLite().cursor().execute(statement, params). *)
(*                                                                         *)
(* rows maps the row ids of the table to the stored values of the columns  *)
(* other than the primary key; the primary-key column of a row reads as    *)
(* its row id.  Values are stored and compared under the column's type     *)
(* affinity, and conditions are three-valued ("T", "F", "N" for NULL).     *)
(***************************************************************************)
\* the columns a row stores
DataColumns(c) ==
    {c.columns[i] : i \in 1..Len(c.columns)} \ {c.primary_key}

\* the storage type the table gives a column
ColumnType(c, col) ==
    IF col = c.primary_key THEN "INTEGER"
    ELSE (CHOOSE e \in Fields(c) : e.value.column_name = PyStr(col))
             .value.column_type

\* an integer written as decimal text, read back as the integer
AsInteger(v) ==
    IF v.k = "str" /\ \E n \in 0..(MaxRowId + 1) : ToString(n) = v.v
    THEN PyInt(CHOOSE n \in 0..(MaxRowId + 1) : ToString(n) = v.v)
    ELSE v

\* the value a column of the given type holds for (or compares with) v
Affinity(type, v) ==
    IF type = "TEXT" THEN (IF v.k = "int" THEN PyStr(ToString(v.v)) ELSE v)
    ELSE AsInteger(v)

\* the value of a column in the row with id r
RowValue(c, table, r, col) ==
    IF col = c.primary_key THEN PyInt(r) ELSE table[r][col]

\* col = ? for one row
SqlEq(c, table, r, col, param) ==
    LET lhs == RowValue(c, table, r, col)
        rhs == Affinity(ColumnType(c, col), param)
    IN  IF lhs = PyNone \/ rhs = PyNone THEN "N"
        ELSE IF lhs = rhs THEN "T" ELSE "F"

\* a value used as a condition: text counts by its leading number
SqlTruth(v) ==
    CASE v.k = "none" -> "N"
      [] v.k = "int"  -> IF v.v # 0 THEN "T" ELSE "F"
      [] v.k = "str"  ->
            IF IsRaise(strptime(v))
            THEN (IF AsInteger(v).k = "int" /\ AsInteger(v).v # 0
                  THEN "T" ELSE "F")
            ELSE "T"
      [] OTHER -> "N"

SqlAnd(a, b) ==
    IF a = "F" \/ b = "F" THEN "F"
    ELSE IF a = "N" \/ b = "N" THEN "N" ELSE "T"

RECURSIVE SqlAndAll(_)
SqlAndAll(conds) ==
    IF conds = {} THEN "T"
    ELSE LET x == CHOOSE y \in conds : TRUE
         IN  SqlAnd(x, SqlAndAll(conds \ {x}))

\* the WHERE clause "<col> = ? AND ... AND 1 = ?" holds of row r; where
\* already carries the sentinel where["1"] = 1
WhereHolds(c, table, r, where) ==
    SqlAndAll({ IF col = "1"
                THEN (IF where[col] = PyNone THEN "N"
                      ELSE IF AsInteger(where[col]) = PyInt(1) THEN "T"
                      ELSE "F")
                ELSE SqlEq(c, table, r, col, where[col])
                : col \in DOMAIN where }) = "T"

Matching(c, table, where) ==
    {r \in DOMAIN table : WhereHolds(c, table, r, where)}

Max(S) == CHOOSE x \in S : \A y \in S : y <= x

\* the row id the engine gives the next inserted row
NextRowId(table) == Max(DOMAIN table \cup {0}) + 1

RECURSIVE SortedSeq(_)
\* the elements of a set of row ids in ascending order
SortedSeq(S) ==
    IF S = {} THEN <<>>
    ELSE LET m == CHOOSE x \in S : \A y \in S : x <= y
         IN  <<m>> \o SortedSeq(S \ {m})

\* the value "SET <first> = ? AND <col> = ? AND ..." stores in column first
\* of row r: with several columns the engine reads the text after the first
\* "=" as one condition
SetValue(c, table, r, data, first) ==
    IF DOMAIN data = {first} THEN Affinity(ColumnType(c, first), data[first])
    ELSE LET t == SqlAndAll({SqlTruth(data[first])} \cup
                            {SqlEq(c, table, r, col, data[col]) :
                                col \in DOMAIN data \ {first}})
         IN  IF t = "N" THEN PyNone
             ELSE Affinity(ColumnType(c, first),
                           PyInt(IF t = "T" THEN 1 ELSE 0))

\* "SELECT <columns> FROM <table> WHERE ..."
ExecSelect(c, table, where) ==
    LET ids == SortedSeq(Matching(c, table, where))
    IN  [k |-> "cursor", lastrowid |-> 0,
         result |-> [i \in 1..Len(ids) |->
                       [j \in 1..Len(c.columns) |->
                          RowValue(c, table, ids[i], c.columns[j])]],
         table |-> table]

\* "UPDATE <table> SET ... WHERE ..."
ExecUpdate(c, table, where, data, first) ==
    LET hit == Matching(c, table, where)
    IN  [k |-> "cursor", lastrowid |-> 0, result |-> <<>>,
         table |-> [r \in DOMAIN table |->
                      IF r \in hit
                      THEN [table[r] EXCEPT
                              ![first] = SetValue(c, table, r, data, first)]
                      ELSE table[r]]]

\* "INSERT INTO <table> (<data columns>) VALUES (?, ...)"
ExecInsert(c, table, data) ==
    LET id == NextRowId(table)
    IN  [k |-> "cursor", lastrowid |-> id, result |-> <<>>,
         table |-> (id :> [col \in DataColumns(c) |->
                             Affinity(ColumnType(c, col), data[col])])
                   @@ table]

\* "DELETE FROM <table> WHERE ..."
ExecDelete(c, table, where) ==
    LET hit == Matching(c, table, where)
    IN  [k |-> "cursor", lastrowid |-> 0, result |-> <<>>,
         table |-> [r \in DOMAIN table \ hit |-> table[r]]]

(***************************************************************************)
(* Model: instances and the operations of Model.                           *)
(*                                                                         *)
(* An instance is [k |-> "instance", saved, d] where d is its __dict__ :   *)
(* the value of a field is kept under the field's attr, which is None for  *)
(* the synthesized key field (NoneKey).                                    *)
(***************************************************************************)
NoneKey == "<None>"

DictKey(attr) == IF attr = PyNone THEN NoneKey ELSE attr.v

\* the descriptor found for an attribute name: a field of the class, or
\* the _rowid_ field every class inherits from Model
HasDescriptor(c, name) ==
    name = "_rowid_" \/ \E e \in Fields(c) : e.attr = name

Descriptor(c, name) ==
    IF \E e \in Fields(c) : e.attr = name
    THEN ClassDictGet(c, name)
    ELSE FieldInteger([is_key |-> TRUE])

\* getattr(self, name): Field.__get__ for a descriptor, else the instance
\* dictionary
GetAttr(c, self, name) ==
    IF HasDescriptor(c, name)
    THEN (IF DictKey(Descriptor(c, name).attr) \in DOMAIN self.d
          THEN self.d[DictKey(Descriptor(c, name).attr)]
          ELSE Raise("KeyError"))
    ELSE IF name \in DOMAIN self.d THEN self.d[name]
    ELSE Raise("AttributeError")

\* setattr(self, name, value): Field.__set__ for a descriptor, else the
\* instance dictionary; the instance after it, or the exception
SetAttr(c, self, name, value) ==
    IF HasDescriptor(c, name)
    THEN LET v == validate(Descriptor(c, name), value)
         IN  IF IsRaise(v) THEN v
             ELSE [self EXCEPT
                     !.d = (DictKey(Descriptor(c, name).attr) :> v) @@ @]
    ELSE [self EXCEPT !.d = (name :> value) @@ @]

RECURSIVE InitLoop(_, _, _, _)
\* the loop of Model.__init__
InitLoop(c, entries, kwargs, self) ==
    IF entries = <<>> \/ IsRaise(self) THEN self
    ELSE LET e == Head(entries)
         IN  InitLoop(c, Tail(entries), kwargs,
                      SetAttr(c, self, e.attr,
                              IF e.attr \in DOMAIN kwargs
                              THEN kwargs[e.attr] ELSE e.value.default))

\* Model.__init__(kwargs)
ModelInit(c, kwargs) ==
    InitLoop(c, c.dict, kwargs, [k |-> "instance", saved |-> FALSE, d |-> <<>>])

\* the keys of where and data that are not columns of the schema
UnknownColumns(c, where, data) ==
    (DOMAIN where \cup DOMAIN data) \ {c.columns[i] : i \in 1..Len(c.columns)}

\* the column check of _generate_query, looking at the where map only
ValidateColumns_WhereOnly(c, where, data, bad) ==
    IF UnknownColumns(c, where, <<>>) # {} THEN Raise("TypeError") ELSE PyNone

\* the column check of _generate_query: the first loop; bad is the unknown
\* key the iteration over the merged dictionary meets first
ValidateColumns(c, where, data, bad) ==
    IF UnknownColumns(c, where, data) # {} THEN Raise("TypeError") ELSE PyNone

\* the ways the dictionaries of one _generate_query call can iterate: the
\* unknown key met first and the data column listed first
Iterations(c, where, data) ==
    {[bad |-> b, first |-> f] :
        b \in (IF UnknownColumns(c, where, data) = {} THEN {""}
               ELSE UnknownColumns(c, where, data)),
        f \in (IF DOMAIN data = {} THEN {""} ELSE DOMAIN data)}

\* Model._generate_query: the cursor of the executed statement (with the
\* table after it), or the exception raised (with col, the column its
\* message names)
GenerateQuery(c, table, query, where, data, it) ==
    IF IsRaise(ValidateColumns(c, where, data, it.bad))
    THEN [k |-> "raise", v |-> "TypeError", col |-> it.bad, table |-> table]
    ELSE LET where1 == ("1" :> PyInt(1)) @@ where
         IN  CASE query = "SELECT" -> ExecSelect(c, table, where1)
               [] query = "UPDATE" ->
                    \* "UPDATE t SET  WHERE ..." does not parse
                    IF DOMAIN data = {}
                    THEN [k |-> "raise", v |-> "OperationalError",
                          col |-> "", table |-> table]
                    ELSE ExecUpdate(c, table, where1, data, it.first)
               [] query = "INSERT" ->
                    \* "INSERT INTO t () VALUES ()" does not parse
                    IF DOMAIN data = {}
                    THEN [k |-> "raise", v |-> "OperationalError",
                          col |-> "", table |-> table]
                    ELSE ExecInsert(c, table, data)
               [] query = "DELETE" -> ExecDelete(c, table, where1)
               [] OTHER -> [k |-> "raise", v |-> "TypeError", col |-> "",
                            table |-> table]

\* the non-key fields of the class
DataFields(c) == {e \in Fields(c) : ~e.value.is_key}

\* whether save() reads the clock for this field
StampsNow(field, first_time) ==
    field.kind = "DateTime" /\ (field.auto_now \/ (first_time /\ field.auto_now_add))

\* the dictionary data that Model.save gathers (tagged "dict"; its keys are
\* the column names of the non-key fields), or the exception of a
\* conversion that fails
SaveData(c, self, now) ==
    LET conv(e) == to_db_format(e.value, GetAttr(c, self, e.attr),
                                ~self.saved, TRUE, now)
    IN  IF \E e \in DataFields(c) : IsRaise(conv(e))
        THEN conv(CHOOSE e \in DataFields(c) : IsRaise(conv(e)))
        ELSE [k |-> "dict",
              v |-> [col \in {e.value.column_name.v : e \in DataFields(c)} |->
                       conv(CHOOSE e \in DataFields(c) :
                                e.value.column_name.v = col)]]

\* Model.save: the instance and the table after it, the statement executed
\* and the exception raised, if any
Save(c, table, self, now, first) ==
    LET gathered == SaveData(c, self, now)
        data == gathered.v
        none == [raised |-> "", col |-> "", self |-> self, table |-> table,
                 executed |-> "", where |-> <<>>, data |-> <<>>]
    IN  IF IsRaise(gathered) THEN [none EXCEPT !.raised = gathered.v]
        ELSE IF self.saved
        THEN LET key == GetAttr(c, self, c.primary_key)
             IN  IF IsRaise(key) THEN [none EXCEPT !.raised = key.v]
                 ELSE LET where  == (c.primary_key :> key)
                          cursor == GenerateQuery(c, table, "UPDATE", where,
                                      data, [bad |-> "", first |-> first])
                      IN  IF IsRaise(cursor)
                          THEN [none EXCEPT !.raised = cursor.v,
                                            !.where = where, !.data = data]
                          ELSE [none EXCEPT !.table = cursor.table,
                                            !.executed = "UPDATE",
                                            !.where = where, !.data = data]
        ELSE LET cursor == GenerateQuery(c, table, "INSERT", <<>>, data,
                                         [bad |-> "", first |-> first])
             IN  IF IsRaise(cursor)
                 THEN [none EXCEPT !.raised = cursor.v, !.data = data]
                 ELSE LET self1 == SetAttr(c, self, c.primary_key,
                                           PyInt(cursor.lastrowid))
                      IN  [none EXCEPT !.table = cursor.table,
                                       !.executed = "INSERT",
                                       !.data = data,
                                       !.self = [self1 EXCEPT !.saved = TRUE]]

RECURSIVE HydrateLoop(_, _, _, _)
\* the nested loops of Model._result_to_model: pair n is column
\* (n-1) \div |dict| + 1 against class dictionary entry (n-1) % |dict| + 1
HydrateLoop(c, n, result, out) ==
    IF n > Len(c.columns) * Len(c.dict) \/ IsRaise(out) THEN out
    ELSE LET i == ((n - 1) \div Len(c.dict)) + 1
             e == c.dict[((n - 1) % Len(c.dict)) + 1]
         IN  IF e.value.column_name = PyStr(c.columns[i])
             THEN LET v == from_db_format(e.value, result[i])
                  IN  IF IsRaise(v) THEN v
                      ELSE HydrateLoop(c, n + 1, result,
                                       SetAttr(c, out, e.attr, v))
             ELSE HydrateLoop(c, n + 1, result, out)

\* Model._result_to_model without the test for an absent row
ResultToModel_NoNoneTest(c, result) ==
    LET out == ModelInit(c, <<>>)
    IN  IF IsRaise(out) THEN out
        ELSE IF result = PyNone THEN Raise("TypeError")
        ELSE HydrateLoop(c, 1, result.v, [out EXCEPT !.saved = TRUE])

\* Model._result_to_model: the instance for a row (a tuple, tagged
\* "tuple"; None for no row), or the exception raised
ResultToModel(c, result) ==
    IF result = PyNone THEN PyNone
    ELSE LET out == ModelInit(c, <<>>)
         IN  IF IsRaise(out) THEN out
             ELSE HydrateLoop(c, 1, result.v, [out EXCEPT !.saved = TRUE])

\* what an operation reports: the exception raised and the column its
\* message names, the statement executed, the maps handed to
\* _generate_query, the value returned and the table after it
Outcome(raised, col, executed, where, data, out, table) ==
    [raised |-> raised, col |-> col, executed |-> executed, where |-> where,
     data |-> data, out |-> out, table |-> table]

\* Model.get(id, kwargs)
Get(c, table, id, kwargs, it) ==
    LET where  == IF id # PyNone THEN (c.primary_key :> id) ELSE kwargs
        cursor == GenerateQuery(c, table, "SELECT", where, <<>>, it)
    IN  IF IsRaise(cursor)
        THEN Outcome(cursor.v, cursor.col, "", where, <<>>, PyNone, table)
        ELSE LET result == ResultToModel(c, IF cursor.result = <<>> THEN PyNone
                                            ELSE [k |-> "tuple",
                                                  v |-> cursor.result[1]])
             IN  IF IsRaise(result)
                 THEN Outcome(result.v, "", "SELECT", where, <<>>, PyNone, table)
                 ELSE Outcome("", "", "SELECT", where, <<>>, result, table)

\* Model.filter(kwargs)
Filter(c, table, kwargs, it) ==
    LET cursor == GenerateQuery(c, table, "SELECT", kwargs, <<>>, it)
    IN  IF IsRaise(cursor)
        THEN Outcome(cursor.v, cursor.col, "", kwargs, <<>>, PyNone, table)
        ELSE LET result == [i \in 1..Len(cursor.result) |->
                               ResultToModel(c, [k |-> "tuple",
                                                 v |-> cursor.result[i]])]
             IN  IF \E i \in 1..Len(result) : IsRaise(result[i])
                 THEN Outcome(result[CHOOSE i \in 1..Len(result) :
                                  /\ IsRaise(result[i])
                                  /\ \A j \in 1..(i - 1) : ~IsRaise(result[j])].v,
                              "", "SELECT", kwargs, <<>>, PyNone, table)
                 ELSE Outcome("", "", "SELECT", kwargs, <<>>,
                              [k |-> "list", v |-> result], table)

\* Model.delete called through the class: delete(kwargs)
DeleteWhere(c, table, kwargs, it) ==
    LET cursor == GenerateQuery(c, table, "DELETE", kwargs, <<>>, it)
    IN  IF IsRaise(cursor)
        THEN Outcome(cursor.v, cursor.col, "", kwargs, <<>>, PyNone, table)
        ELSE Outcome("", "", "DELETE", kwargs, <<>>, PyNone, cursor.table)

\* Model.delete called through an instance
Delete(c, table, self) ==
    IF self.saved
    THEN LET key == GetAttr(c, self, c.primary_key)
         IN  IF IsRaise(key)
             THEN Outcome(key.v, "", "", <<>>, <<>>, PyNone, table)
             ELSE LET where  == (c.primary_key :> key)
                      cursor == GenerateQuery(c, table, "DELETE", where, <<>>,
                                              [bad |-> "", first |-> ""])
                  IN  IF IsRaise(cursor)
                      THEN Outcome(cursor.v, cursor.col, "", where, <<>>,
                                   PyNone, table)
                      ELSE Outcome("", "", "DELETE", where, <<>>, PyNone,
                                   cursor.table)
    ELSE Outcome("", "", "", <<>>, <<>>, PyNone, table)

(***************************************************************************)
(* SQLite: the one connection of the process.  It is None until the first  *)
(* statement is about to be executed; from then on it is a record of the   *)
(* table as last committed and of the number of cursors created on it and  *)
(* not closed.                                                             *)
(***************************************************************************)
\* SQLite(): the connection, created on first use.  check_db() finds the
\* table, commits (nothing is pending) and closes its own cursor.
Connect(conn, table) ==
    IF conn.k = "none"
    THEN [k |-> "connection", committed |-> table, cursors |-> 0]
    ELSE conn

\* the table as last committed (the file, before the connection exists)
Committed(conn) == IF conn.k = "none" THEN <<>> ELSE conn.committed

\* the cursors created on the connection and not closed
Cursors(conn) == IF conn.k = "none" THEN 0 ELSE conn.cursors

\* whether the operation got as far as SQLite().cursor() in _generate_query:
\* it executed its statement, or the engine refused the statement
Opened(o) == o.executed # "" \/ o.raised = "OperationalError"

\* whether the operation, having created a cursor, reaches a cursor.close():
\* save(), get() and filter() close theirs when nothing is raised on the
\* way, delete() has no close, and the caller of _generate_query closes the
\* cursor it is handed
Closes(op, o) == op \in {"save", "get", "filter", "_generate_query"} /\ o.raised = ""

\* delete() committing like save()
Commits_AlsoDelete(op, o) ==
    op \in {"save", "delete", "delete_where"} /\ o.raised = ""

\* whether the operation reaches SQLite().commit()
Commits(op, o) == op = "save" /\ o.raised = ""

\* the connection after an operation on the table
ConnectionAfter(op, o, conn, table) ==
    IF ~Opened(o) THEN conn
    ELSE LET c == Connect(conn, table)
         IN  [c EXCEPT !.cursors = IF Closes(op, o) THEN @ ELSE @ + 1,
                       !.committed = IF Commits(op, o) THEN o.table ELSE @]

\* whether the operation may still be taken: it leaves no further cursor
\* open, or there is room for one
WithinCursors(op, o, conn) ==
    (Opened(o) /\ ~Closes(op, o)) => Cursors(conn) < MaxCursors

(***************************************************************************)
(* The program: one record type, its table, and one variable holding an    *)
(* instance (or None).                                                     *)
(*   dct    the class body handed to the metaclass                         *)
(*   cls    the class: Undeclared, the class built, or the exception       *)
(*   rows   the table, as the connection sees it                           *)
(*   inst   the instance the program holds, or None                        *)
(*   clock  the latest reading of datetime.datetime.now(); the process    *)
(*          starts after moment 1, the default of the Event timestamp      *)
(*   last   the last call made and what it reported                        *)
(***************************************************************************)
\* the record types the operations are run on
RecordTypes ==
    { [name |-> "Note",
       items |-> << Item("id", FieldInteger([is_key |-> TRUE])),
                    Item("text", FieldText(NoKw)) >>],
      [name |-> "Memo",
       items |-> << Item("text", FieldText(NoKw)) >>],
      [name |-> "Entry",
       items |-> << Item("text", FieldText(NoKw)),
                    Item("id", FieldInteger([is_key |-> TRUE,
                                  column_name |-> PyStr("note_id")])) >>] }

\* record types with a creation timestamp next to a text
EventTypes ==
    { [name |-> "Event",
       items |-> << Item("created", FieldDateTime([auto_now_add |-> TRUE,
                                      default |-> PyDateTime(1)])),
                    Item("text", FieldText(NoKw)) >>],
      [name |-> "Log",
       items |-> << Item("text", FieldText(NoKw)),
                    Item("created", FieldDateTime([auto_now_add |-> TRUE])) >>] }

Called(op, o) ==
    [op |-> op, raised |-> o.raised, col |-> o.col, executed |-> o.executed,
     out |-> o.out]

NoCall == Called("", Outcome("", "", "", <<>>, <<>>, PyNone, <<>>))

\* the keyword arguments tried on the constructor: a value for one text
\* field (none when the class has no text field)
ConstructKwargs(c) ==
    IF \E f \in DataFields(c) : f.value.kind = "Text"
    THEN { (e.attr :> PyStr(t)) :
             e \in {f \in DataFields(c) : f.value.kind = "Text"}, t \in Texts }
    ELSE {<<>>}

ColumnNames(c) == {c.columns[i] : i \in 1..Len(c.columns)}

\* the values tried on a column in a filter; "bogus" is no column
ColumnInputs(c, col) ==
    IF col = c.primary_key THEN {PyInt(r) : r \in 1..MaxRowId}
    ELSE IF col \notin ColumnNames(c) THEN {PyInt(1)}
    ELSE IF (CHOOSE e \in Fields(c) : e.value.column_name = PyStr(col))
                .value.kind = "Text"
    THEN {PyStr(t) : t \in Texts}
    ELSE {}

\* the filters of at most n keys, among the columns and a name that is no
\* column
WhereMaps(c, n) ==
    LET names  == ColumnNames(c) \cup {"bogus"}
        inputs == UNION {ColumnInputs(c, col) : col \in names}
    IN  UNION { {w \in [S -> inputs] :
                    \A col \in S : w[col] \in ColumnInputs(c, col)} :
                S \in {T \in SUBSET names : Cardinality(T) <= n} }

\* every data column with a value
FullData(c) ==
    [col \in DataColumns(c) |->
        IF ColumnType(c, col) = "TEXT" THEN PyStr("hello") ELSE PyInt(1)]

NoColumnMap == ("bogus" :> PyInt(1))

\* the calls tried on _generate_query directly: a SELECT of every row, each
\* statement with a map that names no column, INSERT and UPDATE without
\* data, and a statement the method does not know.  (The statements that
\* change rows are executed through save() and delete().)
QueryInputs(c) ==
    {[query |-> "SELECT", where |-> <<>>, data |-> <<>>]}
    \cup
    {[query |-> q, where |-> w, data |-> d] :
        q \in {"SELECT", "DELETE"},
        w \in {NoColumnMap}, d \in {<<>>}}
    \cup
    {[query |-> q, where |-> <<>>, data |-> d] :
        q \in {"SELECT", "DELETE"}, d \in {NoColumnMap}}
    \cup
    {[query |-> q, where |-> <<>>, data |-> d] :
        q \in {"INSERT", "UPDATE"},
        d \in {<<>>, NoColumnMap @@ FullData(c)}}
    \cup
    {[query |-> q, where |-> NoColumnMap, data |-> FullData(c)] :
        q \in {"INSERT", "UPDATE"}}
    \cup
    {[query |-> "MERGE", where |-> <<>>, data |-> <<>>]}

\* the class statement runs: ModelMeta.__new__
Declare ==
    /\ cls = Undeclared
    /\ cls' = ModelMetaNew(dct.name, dct.items)
    /\ last' = Called("class",
                  Outcome(IF IsRaise(cls') THEN cls'.v ELSE "", "", "",
                          <<>>, <<>>, PyNone, rows))
    /\ UNCHANGED <<dct, rows, inst, clock, connection>>

\* cls.get_create_statement()
CreateStatement ==
    /\ cls.k = "class"
    /\ LET s == get_create_statement(cls)
       IN  last' = Called("get_create_statement",
                     Outcome(IF IsRaise(s) THEN s.v ELSE "", "", "", <<>>,
                             <<>>, IF IsRaise(s) THEN PyNone ELSE s, rows))
    /\ UNCHANGED <<dct, cls, rows, inst, clock, connection>>

\* inst = cls(kwargs)
Construct ==
    /\ cls.k = "class"
    /\ \E kwargs \in ConstructKwargs(cls) :
         LET self == ModelInit(cls, kwargs)
         IN  /\ inst' = IF IsRaise(self) THEN inst ELSE self
             /\ last' = Called("construct",
                          Outcome(IF IsRaise(self) THEN self.v ELSE "", "",
                                  "", <<>>, <<>>, PyNone, rows))
    /\ UNCHANGED <<dct, cls, rows, clock, connection>>

\* inst.<attr> = value, on a text field
Assign ==
    /\ cls.k = "class"
    /\ inst.k = "instance"
    /\ \E e \in {f \in DataFields(cls) : f.value.kind = "Text"}, t \in Texts :
         LET self == SetAttr(cls, inst, e.attr, PyStr(t))
         IN  /\ inst' = IF IsRaise(self) THEN inst ELSE self
             /\ last' = Called("assign",
                          Outcome(IF IsRaise(self) THEN self.v ELSE "", "",
                                  "", <<>>, <<>>, PyNone, rows))
    /\ UNCHANGED <<dct, cls, rows, clock, connection>>

\* the readings datetime.datetime.now() can give a save() of the instance:
\* the clock does not run backwards, and is not read when no field stamps
Readings(c, self, t) ==
    IF \E e \in DataFields(c) : StampsNow(e.value, ~self.saved)
    THEN t..MaxClock ELSE {t}

\* the data columns the dictionary of save() can list first
FirstColumns(c) ==
    IF DataFields(c) = {} THEN {""}
    ELSE {e.value.column_name.v : e \in DataFields(c)}

\* inst.save()
SaveInstance ==
    /\ cls.k = "class"
    /\ inst.k = "instance"
    /\ inst.saved \/ NextRowId(rows) <= MaxRowId
    /\ \E now \in Readings(cls, inst, clock), first \in FirstColumns(cls) :
         LET o == Save(cls, rows, inst, now, first)
         IN  /\ WithinCursors("save", o, connection)
             /\ connection' = ConnectionAfter("save", o, connection, rows)
             /\ clock' = now
             /\ rows' = o.table
             /\ inst' = o.self
             /\ last' = Called("save",
                          Outcome(o.raised, o.col, o.executed, o.where,
                                  o.data, PyNone, o.table))
    /\ UNCHANGED <<dct, cls>>

\* inst.delete()
DeleteInstance ==
    /\ cls.k = "class"
    /\ inst.k = "instance"
    /\ LET o == Delete(cls, rows, inst)
       IN  /\ WithinCursors("delete", o, connection)
           /\ connection' = ConnectionAfter("delete", o, connection, rows)
           /\ rows' = o.table
           /\ last' = Called("delete", o)
    /\ UNCHANGED <<dct, cls, inst, clock>>

\* cls.delete(kwargs)
DeleteByFilter ==
    /\ cls.k = "class"
    /\ \E kwargs \in WhereMaps(cls, 1) :
         \E it \in Iterations(cls, kwargs, <<>>) :
           LET o == DeleteWhere(cls, rows, kwargs, it)
           IN  /\ WithinCursors("delete_where", o, connection)
               /\ connection' = ConnectionAfter("delete_where", o,
                                                connection, rows)
               /\ rows' = o.table
               /\ last' = Called("delete_where", o)
    /\ UNCHANGED <<dct, cls, inst, clock>>

\* inst = cls.get(id) or inst = cls.get(kwargs)
GetInstance ==
    /\ cls.k = "class"
    /\ \E id \in {PyNone} \cup {PyInt(r) : r \in 1..MaxRowId},
          kwargs \in WhereMaps(cls, 1) :
         /\ id # PyNone => kwargs = <<>>
         /\ \E it \in Iterations(cls,
                        IF id # PyNone THEN (cls.primary_key :> id)
                        ELSE kwargs, <<>>) :
              LET o == Get(cls, rows, id, kwargs, it)
              IN  /\ WithinCursors("get", o, connection)
                  /\ connection' = ConnectionAfter("get", o, connection, rows)
                  /\ inst' = IF o.raised # "" THEN inst ELSE o.out
                  /\ last' = Called("get", [o EXCEPT !.out = PyNone])
    /\ UNCHANGED <<dct, cls, rows, clock>>

\* cls.filter(kwargs)
FilterInstances ==
    /\ cls.k = "class"
    /\ \E kwargs \in WhereMaps(cls, 1) :
         \E it \in Iterations(cls, kwargs, <<>>) :
           LET o == Filter(cls, rows, kwargs, it)
           IN  /\ WithinCursors("filter", o, connection)
               /\ connection' = ConnectionAfter("filter", o, connection, rows)
               /\ last' = Called("filter", o)
    /\ UNCHANGED <<dct, cls, rows, inst, clock>>

\* cls._generate_query(query, where, data), the cursor closed by the caller
Query ==
    /\ cls.k = "class"
    /\ \E q \in QueryInputs(cls) :
         /\ (q.query = "INSERT" /\ UnknownColumns(cls, q.where, q.data) = {}
               /\ q.data # <<>>)
               => NextRowId(rows) <= MaxRowId
         /\ \E it \in Iterations(cls, q.where, q.data) :
              LET cursor == GenerateQuery(cls, rows, q.query, q.where,
                                          q.data, it)
                  o == Outcome(IF IsRaise(cursor) THEN cursor.v ELSE "",
                               IF IsRaise(cursor) THEN cursor.col ELSE "",
                               IF IsRaise(cursor) THEN "" ELSE q.query,
                               q.where, q.data, PyNone, cursor.table)
              IN  /\ WithinCursors("_generate_query", o, connection)
                  /\ connection' = ConnectionAfter("_generate_query", o,
                                                   connection, rows)
                  /\ rows' = cursor.table
                  /\ last' = Called("_generate_query", o)
    /\ UNCHANGED <<dct, cls, inst, clock>>

Start(types) ==
    /\ dct \in types
    /\ cls = Undeclared
    /\ rows = <<>>
    /\ inst = PyNone
    /\ clock = 2
    /\ last = NoCall
    /\ connection = PyNone

Init == Start(RecordTypes)

Next ==
    \/ Declare
    \/ CreateStatement
    \/ Construct
    \/ Assign
    \/ SaveInstance
    \/ DeleteInstance
    \/ DeleteByFilter
    \/ GetInstance
    \/ FilterInstances
    \/ Query

Spec == Init /\ [][Next]_vars

\* the same program over the record types with a creation timestamp
InitEvent == Start(EventTypes)

\* ... by a program that constructs, assigns, saves, fetches and deletes
NextEvent ==
    \/ Declare
    \/ Construct
    \/ Assign
    \/ SaveInstance
    \/ GetInstance
    \/ DeleteInstance

SpecEvent == InitEvent /\ [][NextEvent]_vars

\* the class statement and the CREATE TABLE statement alone, over every
\* declaration drawn from the field pool
InitMeta == Start(Declarations)

NextMeta == Declare \/ CreateStatement

SpecMeta == InitMeta /\ [][NextMeta]_vars

(***************************************************************************)
(* The conversions of a field, on their own: a record type of one field,   *)
(* and a program that validates a value, converts it to the database       *)
(* format and back, and asks the field for its column definition.  Here    *)
(* inst is the value handed to validate and last.out the value the last    *)
(* conversion returned.                                                    *)
(***************************************************************************)
\* the values handed to a field
FieldValues ==
    {PyNone, PyInt(0), PyInt(1), PyDecimal(1), PyStr("1"), PyStr("hello"),
     PyDateTime(0), PyDateTime(1), PyDateTime(2)}

\* the flags of a field declaration, any of them given or left out
FieldFlags ==
    [{"is_key", "allow_null", "is_unique", "check"} -> BOOLEAN]

\* a flag given only when it differs from the default of Field.__init__
FlagKwargs(f) ==
    LET given == {n \in DOMAIN f : f[n] # (n = "allow_null")}
    IN  [n \in given |-> f[n]]

\* one field of each kind under every choice of flags, with and without a
\* default of its own
FieldChoices ==
    {FieldInteger(kw)  : kw \in {FlagKwargs(f) : f \in FieldFlags}} \cup
    {FieldInteger(kw @@ [default |-> PyInt(1)]) :
                         kw \in {FlagKwargs(f) : f \in FieldFlags}} \cup
    {FieldDecimal(kw)  : kw \in {FlagKwargs(f) : f \in FieldFlags}} \cup
    {FieldText(kw)     : kw \in {FlagKwargs(f) : f \in FieldFlags}} \cup
    {FieldText(kw @@ [default |-> PyStr("hello")]) :
                         kw \in {FlagKwargs(f) : f \in FieldFlags}} \cup
    {FieldDateTime(kw) : kw \in {FlagKwargs(f) : f \in FieldFlags}}

FieldTypes ==
    {[name |-> "Record", items |-> <<Item("value", f)>>] : f \in FieldChoices}

\* the declared field as the metaclass bound it (the synthesized key, if
\* any, comes after it in the class dictionary)
FirstField(c) == c.dict[1].value

\* what a conversion reports: the value returned or the exception raised
Converted(op, value) ==
    [op |-> op, raised |-> IF IsRaise(value) THEN value.v ELSE "",
     col |-> "", executed |-> "",
     out |-> IF IsRaise(value) THEN PyNone ELSE value]

\* field.validate(v)
Validate ==
    /\ cls.k = "class"
    /\ \E v \in FieldValues :
         /\ inst' = v
         /\ last' = Converted("validate", validate(FirstField(cls), v))
    /\ UNCHANGED <<dct, cls, rows, clock, connection>>

\* field.to_db_format(value, first_time, is_query) of the validated value
ToDbFormat ==
    /\ cls.k = "class"
    /\ last.op = "validate" /\ last.raised = ""
    /\ \E first_time, is_query \in BOOLEAN :
         last' = Converted("to_db_format",
                   to_db_format(FirstField(cls), last.out, first_time,
                                is_query, clock))
    /\ UNCHANGED <<dct, cls, rows, inst, clock, connection>>

\* field.from_db_format(value) of the stored value
FromDbFormat ==
    /\ cls.k = "class"
    /\ last.op = "to_db_format" /\ last.raised = ""
    /\ last' = Converted("from_db_format",
                 from_db_format(FirstField(cls), last.out))
    /\ UNCHANGED <<dct, cls, rows, inst, clock, connection>>

\* field._get_column_statement()
ColumnStatement ==
    /\ cls.k = "class"
    /\ last' = Converted("_get_column_statement",
                 get_column_statement(FirstField(cls)))
    /\ inst' = PyNone
    /\ UNCHANGED <<dct, cls, rows, clock, connection>>

InitField == Start(FieldTypes)

NextField ==
    \/ Declare
    \/ Validate
    \/ ToDbFormat
    \/ FromDbFormat
    \/ ColumnStatement

SpecField == InitField /\ [][NextField]_vars

(***************************************************************************)
(* Notions the statements below are written in.                            *)
(***************************************************************************)
\* the class dictionary entries of the fields marked is_key
KeyEntries(c) == {e \in Fields(c) : e.value.is_key}

\* the value of the instance's primary-key attribute
KeyValue(c, self) ==
    GetAttr(c, self, (CHOOSE e \in KeyEntries(c) : TRUE).attr)

\* the field a column belongs to: the key field for the primary-key column
ColumnEntry(c, col) ==
    IF col = c.primary_key THEN CHOOSE e \in KeyEntries(c) : TRUE
    ELSE CHOOSE e \in Fields(c) : e.value.column_name = PyStr(col)

\* row r has the given value in every column the filter names
RowMatches(c, table, r, kwargs) ==
    \A col \in DOMAIN kwargs : RowValue(c, table, r, col) = kwargs[col]

\* the filters of at most two keys that name columns only
ColumnFilters(c) == {w \in WhereMaps(c, 2) : UnknownColumns(c, w, <<>>) = {}}

\* the instance holds, under every non-key field, the value the row has
SameDataValues(c, a, b) ==
    \A e \in DataFields(c) : GetAttr(c, a, e.attr) = GetAttr(c, b, e.attr)

NoIteration == [bad |-> "", first |-> ""]

(***************************************************************************)
(* C1.  save() on a new instance inserts exactly one row, marks the        *)
(* instance persisted, sets its primary-key attribute to the row id the    *)
(* engine gave that row, and get(id = that id) then returns an instance    *)
(* with the saved values of the non-key fields.                            *)
(***************************************************************************)
C1_SaveNewStep ==
    (last'.op = "save" /\ inst.k = "instance" /\ ~inst.saved)
    => /\ last'.raised = ""
       /\ \E r \in DOMAIN rows' \ DOMAIN rows :
            /\ DOMAIN rows' = DOMAIN rows \cup {r}
            /\ \A q \in DOMAIN rows : rows'[q] = rows[q]
            /\ inst'.saved
            /\ KeyValue(cls, inst') = PyInt(r)
            /\ LET g == Get(cls, rows', PyInt(r), <<>>, NoIteration)
               IN  /\ g.raised = ""
                   /\ g.out.k = "instance"
                   /\ SameDataValues(cls, g.out, inst')

C1_SaveNewInsertsAndReadsBack == [][C1_SaveNewStep]_vars

(***************************************************************************)
(* C2.  save() on a persisted instance whose non-key field was just        *)
(* assigned issues an UPDATE keyed on the instance's primary key: the      *)
(* table keeps its rows, no other row is modified, and get(id) returns     *)
(* the new value.  (Stated for a save() that raises nothing and an         *)
(* instance whose row exists.)                                             *)
(***************************************************************************)
C2_SaveAgainStep ==
    (/\ last'.op = "save" /\ last.op = "assign"
     /\ inst.k = "instance" /\ inst.saved
     /\ last'.raised = ""
     /\ KeyValue(cls, inst).k = "int" /\ KeyValue(cls, inst).v \in DOMAIN rows)
    => /\ last'.executed = "UPDATE"
       /\ DOMAIN rows' = DOMAIN rows
       /\ \A q \in DOMAIN rows \ {KeyValue(cls, inst).v} : rows'[q] = rows[q]
       /\ LET g == Get(cls, rows', KeyValue(cls, inst), <<>>, NoIteration)
          IN  /\ g.raised = ""
              /\ g.out.k = "instance"
              /\ \A e \in {f \in DataFields(cls) : f.value.kind = "Text"} :
                    GetAttr(cls, g.out, e.attr) = GetAttr(cls, inst, e.attr)

C2_SaveAgainUpdatesRow == [][C2_SaveAgainStep]_vars

(***************************************************************************)
(* C3.  An instance returned by get() is persisted and holds, for every    *)
(* column of the schema including the primary key, from_storage of the     *)
(* value of that column in a row of the table.                             *)
(***************************************************************************)
C3_HydratedFromRow ==
    (last.op = "get" /\ last.raised = "" /\ inst.k = "instance")
    => /\ inst.saved
       /\ \E r \in DOMAIN rows :
            \A col \in ColumnNames(cls) :
               GetAttr(cls, inst, ColumnEntry(cls, col).attr)
                 = from_db_format(ColumnEntry(cls, col).value,
                                  RowValue(cls, rows, r, col))

(***************************************************************************)
(* C4.  For a DateTime field with auto_now_add and no value set on the     *)
(* instance: the first save() stores the current time in its column, and   *)
(* a later save() of the instance, after an assignment to another field,   *)
(* leaves the stored value of that row unchanged.                          *)
(***************************************************************************)
AutoNowAddEntries(c) ==
    {e \in DataFields(c) : e.value.kind = "DateTime" /\ e.value.auto_now_add}

C4_AutoNowAddStep ==
    (last'.op = "save" /\ inst.k = "instance") =>
      \A e \in AutoNowAddEntries(cls) :
        GetAttr(cls, inst, e.attr) = e.value.default =>
          /\ ~inst.saved =>
               \E r \in DOMAIN rows' \ DOMAIN rows :
                  rows'[r][e.value.column_name.v] = strftime(PyDateTime(clock'))
          /\ (/\ inst.saved /\ last.op = "assign"
              /\ KeyValue(cls, inst).v \in DOMAIN rows) =>
               /\ KeyValue(cls, inst).v \in DOMAIN rows'
               /\ rows'[KeyValue(cls, inst).v][e.value.column_name.v]
                    = rows[KeyValue(cls, inst).v][e.value.column_name.v]

C4_AutoNowAddKeepsCreationTime == [][C4_AutoNowAddStep]_vars

(***************************************************************************)
(* C5.  delete() on a persisted instance removes exactly the row whose     *)
(* primary key is the instance's, and on an instance that is not persisted *)
(* it executes nothing and raises nothing; delete(kwargs) on the class   *)
(* removes exactly the rows matching every filter and leaves the others    *)
(* as they are.                                                            *)
(***************************************************************************)
Without(table, gone) == [r \in DOMAIN table \ gone |-> table[r]]

C5_DeleteStep ==
    /\ (last'.op = "delete" /\ inst.k = "instance") =>
         /\ last'.raised = ""
         /\ inst.saved =>
              /\ KeyValue(cls, inst).k = "int"
              /\ rows' = Without(rows, {KeyValue(cls, inst).v})
         /\ ~inst.saved => (rows' = rows /\ last'.executed = "")
    /\ cls.k = "class" =>
         \A kwargs \in ColumnFilters(cls) :
            LET o == DeleteWhere(cls, rows, kwargs, NoIteration)
            IN  /\ o.raised = ""
                /\ o.table = Without(rows, {r \in DOMAIN rows :
                                              RowMatches(cls, rows, r, kwargs)})

C5_DeleteRemovesExactlyItsRows == [][C5_DeleteStep]_vars

(***************************************************************************)
(* C6.  Whatever the statement, when a key of the where map or of the data *)
(* map is no column of the schema, _generate_query raises the column       *)
(* error (TypeError) naming such a key, executes nothing and leaves the    *)
(* table as it is.                                                         *)
(***************************************************************************)
C6_UnknownColumnRejected ==
    cls.k = "class" =>
      /\ \A query \in {"SELECT", "INSERT", "UPDATE", "DELETE"},
            where \in WhereMaps(cls, 2),
            data \in {<<>>, FullData(cls), NoColumnMap @@ FullData(cls)} :
           UnknownColumns(cls, where, data) # {} =>
             \A it \in Iterations(cls, where, data) :
                LET r == GenerateQuery(cls, rows, query, where, data, it)
                IN  /\ IsRaise(r)
                    /\ r.v = "TypeError"
                    /\ r.col \in UnknownColumns(cls, where, data)
                    /\ r.table = rows
      /\ last.col # "" => (last.raised = "TypeError" /\ last.executed = "")

\* a call was rejected for the key "bogus" while the table had rows
C6_Witness ==
    /\ last.op = "_generate_query"
    /\ last.raised = "TypeError"
    /\ last.col = "bogus"
    /\ DOMAIN rows # {}

(***************************************************************************)
(* C7.  A filter over columns of the schema that no row of the table       *)
(* matches makes filter() return the empty list and get() return None,     *)
(* and neither raises.                                                     *)
(***************************************************************************)
C7_NoMatchIsEmptyNotError ==
    cls.k = "class" =>
      /\ \A kwargs \in ColumnFilters(cls) :
           (\A r \in DOMAIN rows : ~RowMatches(cls, rows, r, kwargs)) =>
             LET f == Filter(cls, rows, kwargs, NoIteration)
                 g == Get(cls, rows, PyNone, kwargs, NoIteration)
             IN  /\ f.raised = ""
                 /\ f.out.k = "list"
                 /\ f.out.v = <<>>
                 /\ g.raised = ""
                 /\ g.out.k = "none"
      /\ \A id \in (1..(MaxRowId + 1)) \ DOMAIN rows :
           LET g == Get(cls, rows, PyInt(id), <<>>, NoIteration)
           IN  g.raised = "" /\ g.out.k = "none"

\* filter() returned the empty list from a table that has rows
C7_Witness ==
    /\ cls.k = "class"
    /\ DOMAIN rows # {}
    /\ last.op = "filter"
    /\ last.raised = ""
    /\ last.out.k = "list"
    /\ last.out.v = <<>>

(***************************************************************************)
(* C8.  A declaration with two is_key fields fails with the definition     *)
(* error (TypeError); one with exactly one is_key field succeeds, and the  *)
(* CREATE TABLE statement lists that field's column definition first and   *)
(* the definition of every other field once after it.  (Stated for the     *)
(* declarations whose other fields all have a column definition.)          *)
(***************************************************************************)
KeyItems(d) == {i \in 1..Len(d.items) : d.items[i].value.is_key}

C8_SingleKeyFirst ==
    cls.k # "undeclared" =>
      /\ Cardinality(KeyItems(dct)) >= 2 =>
           (cls.k = "raise" /\ cls.v = "TypeError")
      /\ Cardinality(KeyItems(dct)) = 1 =>
           /\ cls.k = "class"
           /\ (\A e \in DataFields(cls) : ~IsRaise(get_column_statement(e.value)))
              => LET cs  == ColStatements(cls)
                     key == CHOOSE e \in KeyEntries(cls) : TRUE
                 IN  /\ cs.k = "list"
                     /\ Len(cs.v) = Len(dct.items)
                     /\ cs.v[1] = get_column_statement(key.value).v
                     /\ \A e \in DataFields(cls) :
                          \E i \in 2..Len(cs.v) :
                             cs.v[i] = get_column_statement(e.value).v

(***************************************************************************)
(* C9.  A declaration without an is_key field gets exactly one synthesized *)
(* integer key, named _rowid_ : it is the first column of the schema, the  *)
(* declared columns follow it, and the schema's primary key names it.      *)
(***************************************************************************)
C9_SynthesizedKeyFirst ==
    (cls.k # "undeclared" /\ KeyItems(dct) = {}) =>
      /\ cls.k = "class"
      /\ cls.primary_key = "_rowid_"
      /\ Len(cls.columns) = Len(dct.items) + 1
      /\ cls.columns[1] = "_rowid_"
      /\ \A i \in 1..Len(dct.items) :
           cls.columns[i + 1] =
             (IF dct.items[i].value.column_name = PyNone
              THEN dct.items[i].attr
              ELSE dct.items[i].value.column_name.v)
      /\ Cardinality(KeyEntries(cls)) = 1
      /\ \A e \in KeyEntries(cls) :
           e.attr = "_rowid_" /\ e.value.kind = "Integer"

\* a class of two or more fields, none of them a key, has been built
C9_Witness ==
    /\ cls.k = "class"
    /\ last.op = "class"
    /\ KeyItems(dct) = {}
    /\ Len(dct.items) >= 2

(***************************************************************************)
(* C10.  The column list of a declared record type names no column twice   *)
(* and no operation changes it.                                            *)
(***************************************************************************)
NoColumnTwice(columns) ==
    \A i, j \in 1..Len(columns) : i # j => columns[i] # columns[j]

C10_ColumnsUniqueAndStable ==
    [][cls.k = "class" =>
         (NoColumnTwice(cls.columns) /\ cls'.columns = cls.columns)]_vars

(***************************************************************************)
(* C11.  For a field of any kind and every value v that validate accepts,  *)
(* converting validate(v) to the database format and back raises nothing   *)
(* and reproduces the value: it gives validate(v), which is v itself       *)
(* whenever v is already a value of the field's kind.                      *)
(***************************************************************************)
\* a == b between Python values: the same value, or an integer and a
\* decimal of the same number
PyEq(a, b) ==
    \/ a.k = b.k /\ a.v = b.v
    \/ {a.k, b.k} = {"int", "decimal"} /\ a.v = b.v

C11_RoundTripReproducesValue ==
    cls.k = "class" =>
      /\ \A v \in FieldValues :
           LET field == FirstField(cls)
               w == validate(field, v)
           IN  ~IsRaise(w) =>
                 LET s == to_db_format(field, w, FALSE, FALSE, clock)
                 IN  /\ ~IsRaise(s)
                     /\ LET r == from_db_format(field, s)
                        IN  ~IsRaise(r) /\ PyEq(r, w)
      /\ last.op = "to_db_format" => last.raised = ""
      /\ last.op = "from_db_format" =>
           /\ last.raised = ""
           /\ PyEq(last.out, validate(FirstField(cls), inst))

(***************************************************************************)
(* C12.  The column definition of a field is "<name> <TYPE>" and exactly   *)
(* one modifier, the first that applies of PRIMARY KEY (is_key), NOT NULL  *)
(* (null not allowed), UNIQUE (is_unique), CHECK (check) and DEFAULT       *)
(* <literal>, where the literal is the bare number of a numeric default,   *)
(* the null token (None) of an absent one and the quoted text otherwise.   *)
(***************************************************************************)
DefaultLiteral(default) ==
    CASE default.k \in {"int", "decimal"} -> ToString(default.v)
      [] default.k = "none" -> "None"
      [] OTHER -> "\"" \o PyFormat(default) \o "\""

ColumnDefinition(field) ==
    field.column_name.v \o " " \o field.column_type \o
      (IF field.is_key THEN " PRIMARY KEY"
       ELSE IF ~field.allow_null THEN " NOT NULL"
       ELSE IF field.is_unique THEN " UNIQUE"
       ELSE IF field.check THEN " CHECK"
       ELSE " DEFAULT " \o DefaultLiteral(field.default))

C12_ColumnDefinitionOneModifier ==
    cls.k = "class" =>
      /\ get_column_statement(FirstField(cls))
           = PyStr(ColumnDefinition(FirstField(cls)))
      /\ last.op = "_get_column_statement" =>
           (last.raised = "" /\ last.out = PyStr(ColumnDefinition(FirstField(cls))))

(***************************************************************************)
(* C13.  save(), get(), filter() and delete(), on an instance or on the    *)
(* class, close every cursor they create before they return or raise: no   *)
(* such call leaves a cursor open that was not open before it (so that no  *)
(* cursor is open after any sequence of them).                             *)
(***************************************************************************)
C13_CursorStep ==
    last'.op \in {"save", "get", "filter", "delete", "delete_where"} =>
      Cursors(connection') = Cursors(connection)

C13_EveryCursorClosed == [][C13_CursorStep]_vars

(***************************************************************************)
(* C14.  delete() on an instance leaves the instance as it is, its saved   *)
(* flag and its primary key included.  A save() of the instance right      *)
(* after a delete() that removed its row therefore executes an UPDATE      *)
(* keyed on the old primary key, which matches no row: the row is not      *)
(* created again and the table is the same after the save() as before.     *)
(***************************************************************************)
C14_SaveAfterDeleteStep ==
    /\ last'.op = "delete" => inst' = inst
    /\ (last.op = "delete" /\ last.executed = "DELETE" /\ last'.op = "save") =>
         LET key == GetAttr(cls, inst, cls.primary_key)
         IN  /\ inst.saved /\ inst'.saved
             /\ ~IsRaise(key)
             /\ GetAttr(cls, inst', cls.primary_key) = key
             /\ Matching(cls, rows, (cls.primary_key :> key)) = {}
             /\ \A first \in FirstColumns(cls) :
                  Save(cls, rows, inst, clock', first).where
                    = (cls.primary_key :> key)
             /\ last'.raised = ""
             /\ last'.executed = "UPDATE"
             /\ rows' = rows

C14_SaveAfterDeleteUpdatesNothing == [][C14_SaveAfterDeleteStep]_vars

(***************************************************************************)
(* C15.  The connection is committed by save() only, and by every save()   *)
(* that returns: delete(), on an instance or on the class, executes its    *)
(* DELETE and commits nothing, so the rows it removed are still in the     *)
(* committed table, and stay there until a later save(), of whatever       *)
(* instance, commits the table as the connection then has it.              *)
(***************************************************************************)
C15_CommitStep ==
    /\ Committed(connection') # Committed(connection) =>
         (last'.op = "save" /\ last'.raised = "")
    /\ (last'.op = "save" /\ last'.raised = "") => Committed(connection') = rows'
    /\ last'.op \in {"delete", "delete_where"} =>
         /\ Committed(connection') = Committed(connection)
         /\ \A r \in DOMAIN rows \ DOMAIN rows' :
              (r \in DOMAIN Committed(connection)
                 => r \in DOMAIN Committed(connection'))

C15_CommitOnlyInSave == [][C15_CommitStep]_vars

\* a delete() has removed a committed row, and the removal is not committed
C15_Witness ==
    /\ last.op \in {"delete", "delete_where"}
    /\ last.executed = "DELETE"
    /\ DOMAIN Committed(connection) \ DOMAIN rows # {}

====
